---- MODULE Spec2Model ----
(***************************************************************************)
(* Model of the NetApp chat front end's two stateful cores:                *)
(*   - NodeController (src/node_controller.py): the file-pair command      *)
(*     channel to a node process and the in-memory response ledger;        *)
(*   - ChatroomManager (src/chatroom_manager.py): the one-file-per-room    *)
(*     chatroom store and the direct-message resolver.                     *)
(* Python strings are sequences of one-character strings, so that          *)
(* str.replace, str.strip, str.startswith and the f-string concatenations  *)
(* are computed character by character.                                    *)
(***************************************************************************)
EXTENDS Integers, Sequences, FiniteSets, TLC

VARIABLES
    infile,      \* _nodes/<safe_address>.in : the pending command of a channel
    outfile,     \* _nodes/<safe_address>.out: the result slot of a channel
    responses,   \* NodeController.responses: dict node_address -> list of entries
    now,         \* the last value time.time() returned
    last,        \* the last NodeController call: operation, arguments, return value
    nwrites,     \* number of writes the node process has made to result slots
    sinceWrite,  \* per result slot: the node wrote it after the last poll that returned content
    returned,    \* per address: contents get_response returned since the last clear_responses
    chatrooms,   \* var/chatrooms/<id>.json: chatroom id -> the chatroom record
    roomdirs,    \* var/chatrooms/<id>/: the message directories
    dirlist,     \* the order in which os.listdir lists var/chatrooms/*.json
    outcome,     \* the last ChatroomManager call: method, arguments, return value
    nmsgs,       \* number of messages appended so far
    pc,          \* per thread: the statement of the call the thread is at
    frame,       \* per thread: the arguments and local variables of its call
    lock         \* NodeController.lock: the thread holding it, 0 when free

\* The variables of the NodeController alone, and of the ChatroomManager alone
channelVars == <<infile, outfile, responses, last, nwrites, sinceWrite, returned>>
storeVars == <<chatrooms, roomdirs, dirlist, outcome, nmsgs>>
\* The variables of the threads that call them concurrently
threadVars == <<pc, frame, lock>>

vars == <<channelVars, now, storeVars, threadVars>>

-----------------------------------------------------------------------------
(* Bounds of the model *)

\* writes of the node process to result slots in one behaviour of Spec
MaxNodeWrites == 2
\* results the node process writes in one behaviour of SpecLedger
MaxLedgerWrites == 102
\* messages appended in one behaviour of SpecStore
MaxMessages == 2

-----------------------------------------------------------------------------
(* Python values *)

\* Optional values: None and a present value
NoneV == [some |-> FALSE, val |-> <<>>]
Some(v) == [some |-> TRUE, val |-> v]

\* A file of the _nodes directory: absent, or present with its text
NoFile == [exists |-> FALSE, content |-> <<>>]
File(text) == [exists |-> TRUE, content |-> text]

\* str.strip(): the characters Python treats as whitespace that occur in the model
Whitespace == {" ", "\n", "\t"}

RECURSIVE LStrip(_)
LStrip(s) ==
    IF s # <<>> /\ Head(s) \in Whitespace THEN LStrip(Tail(s)) ELSE s

RECURSIVE RStrip(_)
RStrip(s) ==
    IF s # <<>> /\ s[Len(s)] \in Whitespace
    THEN RStrip(SubSeq(s, 1, Len(s) - 1))
    ELSE s

Strip(s) == RStrip(LStrip(s))

\* The literal "done" of _read_from_node
DONE == <<"d", "o", "n", "e">>

-----------------------------------------------------------------------------
(* Inputs *)

\* Node addresses; the first two differ only in ':' against '_'
Addresses ==
    { <<"h", ":", "1">>, <<"h", "_", "1">>, <<"g", ":", "1">> }

\* The addresses commands are submitted to; g:1 is a node that is only polled
CommandAddresses ==
    { <<"h", ":", "1">>, <<"h", "_", "1">> }

PeerAddresses == { <<"b", ":", "7">> }

ChatTexts == { <<"h", "i">> }

\* file_data dictionaries of send_file
FileDatas == { [name |-> <<"f">>] }

\* What the node process may leave in a result slot
NodeOutputs ==
    { <<>>,
      <<" ", "\n">>,
      DONE,
      <<" ">> \o DONE \o <<"\n">>,
      <<"o", "k">>,
      <<" ", "o", "k", "\n">> }

-----------------------------------------------------------------------------
(* NodeController: the command channel *)

_format_node_address(node_address) ==
    [i \in 1..Len(node_address) |->
        IF node_address[i] = ":" THEN "_" ELSE node_address[i]]

\* The channel identifiers the addresses of the model map to
FileIds == { _format_node_address(a) : a \in Addresses }

\* Mutant: the command file is opened for appending
_write_to_node_append(files, node_address, message) ==
    LET safe_address == _format_node_address(node_address)
    IN  [files EXCEPT ![safe_address] = File(files[safe_address].content \o message)]

\* open(in_file, 'w'); f.write(message)
_write_to_node(files, node_address, message) ==
    [files EXCEPT ![_format_node_address(node_address)] = File(message)]

\* Mutant: the result file is not cleared after reading
_read_from_node_noclear(files, node_address) ==
    LET out_file == files[_format_node_address(node_address)]
        content == Strip(out_file.content)
    IN  IF out_file.exists /\ content # <<>> /\ content # DONE
        THEN [ret |-> Some(content), files |-> files]
        ELSE [ret |-> NoneV, files |-> files]

\* Mutant: the comparison with "done" is left out
_read_from_node_nosentinel(files, node_address) ==
    LET safe_address == _format_node_address(node_address)
        out_file == files[safe_address]
        content == Strip(out_file.content)
    IN  IF out_file.exists /\ content # <<>>
        THEN [ret |-> Some(content),
              files |-> [files EXCEPT ![safe_address] = File(<<>>)]]
        ELSE [ret |-> NoneV, files |-> files]

\* Mutant: the text read is not stripped
_read_from_node_nostrip(files, node_address) ==
    LET safe_address == _format_node_address(node_address)
        out_file == files[safe_address]
        content == out_file.content
    IN  IF out_file.exists /\ content # <<>> /\ content # DONE
        THEN [ret |-> Some(content),
              files |-> [files EXCEPT ![safe_address] = File(<<>>)]]
        ELSE [ret |-> NoneV, files |-> files]

\* Returns the value returned and the result slots after the call
_read_from_node(files, node_address) ==
    LET safe_address == _format_node_address(node_address)
        out_file == files[safe_address]
        content == Strip(out_file.content)
    IN  IF ~out_file.exists
        THEN [ret |-> NoneV, files |-> files]
        ELSE IF content # <<>> /\ content # DONE
             THEN [ret |-> Some(content),
                   files |-> [files EXCEPT ![safe_address] = File(<<>>)]]
             ELSE [ret |-> NoneV, files |-> files]

\* The command lines
SUBMIT_INFO == <<"s", "u", "b", "m", "i", "t", "_", "i", "n", "f", "o">>
PEER_CONNECT == <<"p", "e", "e", "r", "_", "c", "o", "n", "n", "e", "c", "t">>
EXIT == <<"e", "x", "i", "t">>
SEND_CHAT == <<"s", "e", "n", "d", "_", "c", "h", "a", "t">>
SEND_FILE == <<"s", "e", "n", "d", "_", "f", "i", "l", "e">>

submit_info_line == SUBMIT_INFO
peer_connect_line(peer_address) == PEER_CONNECT \o <<":">> \o peer_address
exit_node_line == EXIT
send_chat_line(recipient, message) ==
    SEND_CHAT \o <<":">> \o recipient \o <<":">> \o message

\* json.dumps of a file_data dictionary with the one key "name"
JsonDumps(file_data) ==
    <<"{", "\"", "n", "a", "m", "e", "\"", ":", " ", "\"">>
        \o file_data.name \o <<"\"", "}">>

send_file_line(recipient, file_data) ==
    SEND_FILE \o <<":">> \o recipient \o <<":">> \o JsonDumps(file_data)

-----------------------------------------------------------------------------
(* NodeController: the response ledger *)

\* "Keep only the last 100 responses"
MaxResponses == 100

\* list[-n:]
LastN(list, n) ==
    IF Len(list) > n THEN SubSeq(list, Len(list) - n + 1, Len(list)) ELSE list

\* dict update d[k] = v
DictSet(d, k, v) ==
    [x \in DOMAIN d \cup {k} |-> IF x = k THEN v ELSE d[x]]

\* Mutant: the address's list is created before the response is tested
get_response_eagerkey(files, resp, node_address, t) ==
    LET read == _read_from_node(files, node_address)
        resp1 == IF node_address \notin DOMAIN resp
                 THEN DictSet(resp, node_address, <<>>)
                 ELSE resp
        resp2 == DictSet(resp1, node_address,
                         LastN(Append(resp1[node_address],
                                      [content |-> read.ret.val, timestamp |-> t]),
                               MaxResponses))
    IN  [ret |-> read.ret,
         files |-> read.files,
         responses |-> IF read.ret.some THEN resp2 ELSE resp1]

\* Mutant: the ledger is never cut back to the last 100 responses
get_response_notrunc(files, resp, node_address, t) ==
    LET read == _read_from_node(files, node_address)
        resp1 == IF node_address \notin DOMAIN resp
                 THEN DictSet(resp, node_address, <<>>)
                 ELSE resp
        resp2 == DictSet(resp1, node_address,
                         Append(resp1[node_address],
                                [content |-> read.ret.val, timestamp |-> t]))
    IN  [ret |-> read.ret,
         files |-> read.files,
         responses |-> IF read.ret.some THEN resp2 ELSE resp]

\* The body of get_response under the lock; t is what time.time() returns.
\* Returns the value returned, the result slots and the ledger after the call.
get_response(files, resp, node_address, t) ==
    LET read == _read_from_node(files, node_address)
        response == read.ret
        resp1 == IF node_address \notin DOMAIN resp
                 THEN DictSet(resp, node_address, <<>>)
                 ELSE resp
        resp2 == DictSet(resp1, node_address,
                         Append(resp1[node_address],
                                [content |-> response.val, timestamp |-> t]))
        resp3 == IF Len(resp2[node_address]) > MaxResponses
                 THEN DictSet(resp2, node_address,
                              LastN(resp2[node_address], MaxResponses))
                 ELSE resp2
    IN  [ret |-> response,
         files |-> read.files,
         responses |-> IF response.some THEN resp3 ELSE resp]

get_all_responses(resp, node_address) ==
    IF node_address \in DOMAIN resp THEN resp[node_address] ELSE <<>>

clear_responses(resp, node_address) ==
    IF node_address \in DOMAIN resp
    THEN DictSet(resp, node_address, <<>>)
    ELSE resp

-----------------------------------------------------------------------------------------------------------------------------------------------------
(* The state after NodeController() in an empty working directory *)

\* The record of a call: the method, its arguments, what it returned, and
\* for get_response whether the call before it was a submit to the same address
NoFileData == [name |-> <<>>]

NoCall == [op |-> "init", addr |-> <<>>, peer |-> <<>>, text |-> <<>>,
           file |-> NoFileData, ok |-> FALSE, ret |-> NoneV, hist |-> <<>>,
           followsSubmit |-> FALSE]

InitChannel ==
    /\ infile = [f \in FileIds |-> NoFile]
    /\ outfile = [f \in FileIds |-> NoFile]
    /\ responses = [a \in {} |-> <<>>]
    /\ now = 1
    /\ last = NoCall
    /\ nwrites = 0
    /\ sinceWrite = [f \in FileIds |-> FALSE]
    /\ returned = [a \in Addresses |-> <<>>]

-----------------------------------------------------------------------------
(* Operations of the command channel *)

\* The five methods that write a command line
SubmitOps == {"submit_info", "peer_connect", "exit_node", "send_chat", "send_file"}

SubmitInfo(node_address) ==
    /\ infile' = _write_to_node(infile, node_address, submit_info_line)
    /\ last' = [NoCall EXCEPT !.op = "submit_info", !.addr = node_address,
                              !.ok = TRUE]
    /\ UNCHANGED <<outfile, responses, now, nwrites, sinceWrite, returned>>
    /\ UNCHANGED <<storeVars, threadVars>>

PeerConnect(node_address, peer_address) ==
    /\ infile' = _write_to_node(infile, node_address,
                                peer_connect_line(peer_address))
    /\ last' = [NoCall EXCEPT !.op = "peer_connect", !.addr = node_address,
                              !.peer = peer_address, !.ok = TRUE]
    /\ UNCHANGED <<outfile, responses, now, nwrites, sinceWrite, returned>>
    /\ UNCHANGED <<storeVars, threadVars>>

ExitNode(node_address) ==
    /\ infile' = _write_to_node(infile, node_address, exit_node_line)
    /\ last' = [NoCall EXCEPT !.op = "exit_node", !.addr = node_address,
                              !.ok = TRUE]
    /\ UNCHANGED <<outfile, responses, now, nwrites, sinceWrite, returned>>
    /\ UNCHANGED <<storeVars, threadVars>>

SendChat(node_address, recipient, message) ==
    /\ infile' = _write_to_node(infile, node_address,
                                send_chat_line(recipient, message))
    /\ last' = [NoCall EXCEPT !.op = "send_chat", !.addr = node_address,
                              !.peer = recipient, !.text = message, !.ok = TRUE]
    /\ UNCHANGED <<outfile, responses, now, nwrites, sinceWrite, returned>>
    /\ UNCHANGED <<storeVars, threadVars>>

SendFile(node_address, recipient, file_data) ==
    /\ infile' = _write_to_node(infile, node_address,
                                send_file_line(recipient, file_data))
    /\ last' = [NoCall EXCEPT !.op = "send_file", !.addr = node_address,
                              !.peer = recipient, !.file = file_data, !.ok = TRUE]
    /\ UNCHANGED <<outfile, responses, now, nwrites, sinceWrite, returned>>
    /\ UNCHANGED <<storeVars, threadVars>>

\* get_response when time.time() returns t
GetResponse(node_address, t) ==
    LET r == get_response(outfile, responses, node_address, t)
        f == _format_node_address(node_address)
    IN  /\ outfile' = r.files
        /\ responses' = r.responses
        /\ last' = [NoCall EXCEPT !.op = "get_response", !.addr = node_address,
                                  !.ret = r.ret,
                                  !.followsSubmit =
                                      /\ last.op \in SubmitOps
                                      /\ last.addr = node_address]
        /\ sinceWrite' = IF r.ret.some
                         THEN [sinceWrite EXCEPT ![f] = FALSE]
                         ELSE sinceWrite
        /\ returned' = IF r.ret.some
                       THEN [returned EXCEPT ![node_address] = Append(@, r.ret.val)]
                       ELSE returned
        /\ UNCHANGED <<infile, now, nwrites>>
        /\ UNCHANGED <<storeVars, threadVars>>

GetAllResponses(node_address) ==
    /\ last' = [NoCall EXCEPT !.op = "get_all_responses", !.addr = node_address,
                              !.hist = get_all_responses(responses, node_address)]
    /\ UNCHANGED <<infile, outfile, responses, now, nwrites, sinceWrite, returned>>
    /\ UNCHANGED <<storeVars, threadVars>>

ClearResponses(node_address) ==
    /\ responses' = clear_responses(responses, node_address)
    /\ last' = [NoCall EXCEPT !.op = "clear_responses", !.addr = node_address]
    /\ returned' = [returned EXCEPT ![node_address] = <<>>]
    /\ UNCHANGED <<infile, outfile, now, nwrites, sinceWrite>>
    /\ UNCHANGED <<storeVars, threadVars>>

\* The node process writes a result slot (the node takes no lock of the front
\* end). The clock of the channel advances while the node works, so that
\* time.time() is non-decreasing over the calls of get_response.
NodeWrite(f, text) ==
    /\ outfile' = [outfile EXCEPT ![f] = File(text)]
    /\ nwrites' = nwrites + 1
    /\ now' = now + 1
    /\ sinceWrite' = [sinceWrite EXCEPT ![f] = TRUE]
    /\ last' = [NoCall EXCEPT !.op = "node_write", !.addr = f, !.text = text]
    /\ UNCHANGED <<infile, responses, returned>>
    /\ UNCHANGED <<storeVars, threadVars>>

-----------------------------------------------------------------------------
(* ChatroomManager: values *)

Range(list) == { list[i] : i \in 1..Len(list) }

\* Code points of the characters of user names and chatroom names
CodePoint(c) ==
    CASE c = "D" -> 68
      [] c = "M" -> 77
      [] c = "T" -> 84
      [] c = "_" -> 95
      [] c = "a" -> 97
      [] c = "b" -> 98
      [] c = "c" -> 99
      [] c = "x" -> 120

\* s < t for Python strings
RECURSIVE StrLess(_, _)
StrLess(s, t) ==
    IF t = <<>> THEN FALSE
    ELSE IF s = <<>> THEN TRUE
    ELSE IF Head(s) # Head(t) THEN CodePoint(Head(s)) < CodePoint(Head(t))
    ELSE StrLess(Tail(s), Tail(t))

\* sorted([user1, user2])
Sorted2(user1, user2) ==
    IF StrLess(user2, user1) THEN <<user2, user1>> ELSE <<user1, user2>>

\* name.startswith(prefix)
StartsWith(name, prefix) ==
    /\ Len(name) >= Len(prefix)
    /\ SubSeq(name, 1, Len(prefix)) = prefix

DM_PREFIX == <<"D", "M", "_">>

\* list.remove(x): the list without the first occurrence of x
RECURSIVE ListRemove(_, _)
ListRemove(list, x) ==
    IF list = <<>> THEN <<>>
    ELSE IF Head(list) = x THEN Tail(list)
    ELSE <<Head(list)>> \o ListRemove(Tail(list), x)

\* The return messages of the store
CREATED == "Chatroom created successfully"
NOT_EXIST == "Chatroom does not exist"
ALREADY_MEMBER == "User already a member"
MEMBER_ADDED == "Member added successfully"
NOT_MEMBER == "User is not a member"
CANNOT_REMOVE_CREATOR == "Cannot remove the creator of the chatroom"
MEMBER_REMOVED == "Member removed successfully"
ONLY_MEMBERS == "Only members can send messages"
MESSAGE_ADDED == "Message added successfully"

-----------------------------------------------------------------------------
(* ChatroomManager: the methods, as functions of the chatrooms directory *)

\* The tokens uuid4 draws chatroom ids from, which are also the ids a caller
\* may name, existing or not
RoomIds == {1, 2}

\* Mutant: an id is generated that a chatroom may have already
generate_chatroom_id_reused(store) ==
    CHOOSE id \in RoomIds : \A other \in RoomIds : id <= other

\* uuid4 tokens are modelled as fresh: the smallest id no chatroom file has
generate_chatroom_id(store) ==
    CHOOSE id \in 1..(Cardinality(DOMAIN store) + 1) :
        /\ id \notin DOMAIN store
        /\ \A other \in 1..(id - 1) : other \in DOMAIN store

\* A token is left for one more chatroom
CanCreate(store) == generate_chatroom_id(store) \in RoomIds

chatroom_exists(store, chatroom_id) == chatroom_id \in DOMAIN store

\* Called only after chatroom_exists has answered true
get_chatroom(store, chatroom_id) == store[chatroom_id]

\* Mutant: the creator is not added to the member list
create_chatroom_nocreator(store, name, creator, members, chatroom_id, t) ==
    LET members1 == IF members.some THEN members.val ELSE <<>>
        chatroom_data == [id |-> chatroom_id, name |-> name, creator |-> creator,
                          created_at |-> t, members |-> members1,
                          messages |-> <<>>]
    IN  [ok |-> TRUE, msg |-> CREATED, id |-> chatroom_id,
         store |-> DictSet(store, chatroom_id, chatroom_data),
         dir |-> chatroom_id]

\* members is None or a list; chatroom_id is the generated id, t the time read.
\* Returns (success, message, chatroom_id), the chatroom files and the
\* directory made.
create_chatroom(store, name, creator, members, chatroom_id, t) ==
    LET members1 == IF members.some THEN members.val ELSE <<>>
        members2 == IF creator \notin Range(members1)
                    THEN Append(members1, creator)
                    ELSE members1
        chatroom_data == [id |-> chatroom_id, name |-> name, creator |-> creator,
                          created_at |-> t, members |-> members2,
                          messages |-> <<>>]
    IN  [ok |-> TRUE, msg |-> CREATED, id |-> chatroom_id,
         store |-> DictSet(store, chatroom_id, chatroom_data),
         dir |-> chatroom_id]

\* Mutant: the test for an existing member is left out
add_member_nodupcheck(store, chatroom_id, username) ==
    IF ~chatroom_exists(store, chatroom_id)
    THEN [ok |-> FALSE, msg |-> NOT_EXIST, store |-> store]
    ELSE [ok |-> TRUE, msg |-> MEMBER_ADDED,
          store |-> [store EXCEPT ![chatroom_id].members = Append(@, username)]]

add_member(store, chatroom_id, username) ==
    IF ~chatroom_exists(store, chatroom_id)
    THEN [ok |-> FALSE, msg |-> NOT_EXIST, store |-> store]
    ELSE LET chatroom_data == get_chatroom(store, chatroom_id)
         IN  IF username \in Range(chatroom_data.members)
             THEN [ok |-> FALSE, msg |-> ALREADY_MEMBER, store |-> store]
             ELSE [ok |-> TRUE, msg |-> MEMBER_ADDED,
                   store |-> DictSet(store, chatroom_id,
                                [chatroom_data EXCEPT
                                    !.members = Append(@, username)])]

\* Mutant: the test for the creator is left out
remove_member_nocreatorcheck(store, chatroom_id, username) ==
    IF ~chatroom_exists(store, chatroom_id)
    THEN [ok |-> FALSE, msg |-> NOT_EXIST, store |-> store]
    ELSE IF username \notin Range(store[chatroom_id].members)
         THEN [ok |-> FALSE, msg |-> NOT_MEMBER, store |-> store]
         ELSE [ok |-> TRUE, msg |-> MEMBER_REMOVED,
               store |-> [store EXCEPT
                             ![chatroom_id].members = ListRemove(@, username)]]

remove_member(store, chatroom_id, username) ==
    IF ~chatroom_exists(store, chatroom_id)
    THEN [ok |-> FALSE, msg |-> NOT_EXIST, store |-> store]
    ELSE LET chatroom_data == get_chatroom(store, chatroom_id)
         IN  IF username \notin Range(chatroom_data.members)
             THEN [ok |-> FALSE, msg |-> NOT_MEMBER, store |-> store]
             ELSE IF username = chatroom_data.creator
             THEN [ok |-> FALSE, msg |-> CANNOT_REMOVE_CREATOR, store |-> store]
             ELSE [ok |-> TRUE, msg |-> MEMBER_REMOVED,
                   store |-> DictSet(store, chatroom_id,
                                [chatroom_data EXCEPT
                                    !.members = ListRemove(@, username)])]

\* Mutant: the test for membership of the sender is left out
add_message_nomembercheck(store, chatroom_id, sender, content, message_type, file_info, message_id, t) ==
    IF ~chatroom_exists(store, chatroom_id)
    THEN [ok |-> FALSE, msg |-> NOT_EXIST, data |-> <<>>, store |-> store]
    ELSE LET chatroom_data == get_chatroom(store, chatroom_id)
             message_data ==
                 [id |-> message_id, sender |-> sender, content |-> content,
                  type |-> message_type, timestamp |-> t,
                  file_info |-> IF message_type = "file" /\ file_info.some
                                THEN file_info
                                ELSE NoneV]
         IN  [ok |-> TRUE, msg |-> MESSAGE_ADDED, data |-> <<message_data>>,
              store |-> DictSet(store, chatroom_id,
                                [chatroom_data EXCEPT
                                    !.messages = Append(@, message_data)])]

\* Mutant: the message is put at the head of the log
add_message_prepend(store, chatroom_id, sender, content, message_type, file_info, message_id, t) ==
    IF ~chatroom_exists(store, chatroom_id)
    THEN [ok |-> FALSE, msg |-> NOT_EXIST, data |-> <<>>, store |-> store]
    ELSE LET chatroom_data == get_chatroom(store, chatroom_id)
             message_data ==
                 [id |-> message_id, sender |-> sender, content |-> content,
                  type |-> message_type, timestamp |-> t,
                  file_info |-> IF message_type = "file" /\ file_info.some
                                THEN file_info
                                ELSE NoneV]
         IN  IF sender \notin Range(chatroom_data.members)
             THEN [ok |-> FALSE, msg |-> ONLY_MEMBERS, data |-> <<>>,
                   store |-> store]
             ELSE [ok |-> TRUE, msg |-> MESSAGE_ADDED, data |-> <<message_data>>,
                   store |-> DictSet(store, chatroom_id,
                                     [chatroom_data EXCEPT
                                         !.messages = <<message_data>> \o @])]

\* message_id is the uuid4 generated, t the time read; file_info is None or a
\* dictionary. Returns (success, message) or (success, message, message_data),
\* data being the list of the message_data returned (none or one).
add_message(store, chatroom_id, sender, content, message_type, file_info, message_id, t) ==
    IF ~chatroom_exists(store, chatroom_id)
    THEN [ok |-> FALSE, msg |-> NOT_EXIST, data |-> <<>>, store |-> store]
    ELSE LET chatroom_data == get_chatroom(store, chatroom_id)
             message_data ==
                 [id |-> message_id, sender |-> sender, content |-> content,
                  type |-> message_type, timestamp |-> t,
                  file_info |-> IF message_type = "file" /\ file_info.some
                                THEN file_info
                                ELSE NoneV]
         IN  IF sender \notin Range(chatroom_data.members)
             THEN [ok |-> FALSE, msg |-> ONLY_MEMBERS, data |-> <<>>,
                   store |-> store]
             ELSE [ok |-> TRUE, msg |-> MESSAGE_ADDED, data |-> <<message_data>>,
                   store |-> DictSet(store, chatroom_id,
                                [chatroom_data EXCEPT
                                    !.messages = Append(@, message_data)])]

\* Mutant: the two users are not sorted and the members are compared as a list
create_direct_message_ordered(store, user1, user2, listing, chatroom_id, t) ==
    LET users == <<user1, user2>>
        dm_name == DM_PREFIX \o users[1] \o <<"_">> \o users[2]
        IsMatch(i) ==
            LET chatroom_data == store[listing[i]]
            IN  /\ StartsWith(chatroom_data.name, DM_PREFIX)
                /\ chatroom_data.members = users
        hits == { i \in 1..Len(listing) : IsMatch(i) }
        first == CHOOSE i \in hits : \A j \in hits : i <= j
        made == create_chatroom(store, dm_name, users[1], Some(users),
                                chatroom_id, t)
    IN  IF hits # {}
        THEN [id |-> store[listing[first]].id, is_new |-> FALSE,
              store |-> store, dir |-> 0]
        ELSE [id |-> made.id, is_new |-> TRUE,
              store |-> made.store, dir |-> made.dir]

\* None where a chatroom id may stand
NoId == [some |-> FALSE, val |-> 0]

\* Mutant: the scan finds nothing
find_direct_message_blind(store, user1, user2, listing) == NoId

\* The scan of create_direct_message: the id of the first file in listing
\* that is a direct message of the two users, None if there is none
find_direct_message(store, user1, user2, listing) ==
    LET users == Sorted2(user1, user2)
        IsMatch(i) ==
            LET chatroom_data == store[listing[i]]
            IN  /\ StartsWith(chatroom_data.name, DM_PREFIX)
                /\ Range(chatroom_data.members) = Range(users)
                /\ Len(chatroom_data.members) = 2
        hits == { i \in 1..Len(listing) : IsMatch(i) }
        first == CHOOSE i \in hits : \A j \in hits : i <= j
    IN  IF hits # {} THEN Some(store[listing[first]].id) ELSE NoId

\* listing is os.listdir's order of the chatroom files; chatroom_id and t are
\* the id generated and the time read if a chatroom is created.
\* Returns (chatroom_id, is_new) and the chatroom files and directory made.
create_direct_message(store, user1, user2, listing, chatroom_id, t) ==
    LET users == Sorted2(user1, user2)
        dm_name == DM_PREFIX \o users[1] \o <<"_">> \o users[2]
        found == find_direct_message(store, user1, user2, listing)
        made == create_chatroom(store, dm_name, users[1], Some(users),
                                chatroom_id, t)
    IN  IF found.some
        THEN [id |-> found.val, is_new |-> FALSE,
              store |-> store, dir |-> 0]
        ELSE [id |-> made.id, is_new |-> TRUE,
              store |-> made.store, dir |-> made.dir]

\* list.sort(key=timestamp, reverse=True) is stable: messages of equal
\* timestamp keep the order they had. sorted is newest first already.
InsertNewestFirst(sorted, m) ==
    LET k == Cardinality({ i \in 1..Len(sorted) : sorted[i].timestamp >= m.timestamp })
    IN  SubSeq(sorted, 1, k) \o <<m>> \o SubSeq(sorted, k + 1, Len(sorted))

RECURSIVE SortNewestFirst(_)
SortNewestFirst(messages) ==
    IF messages = <<>> THEN <<>>
    ELSE InsertNewestFirst(SortNewestFirst(SubSeq(messages, 1, Len(messages) - 1)),
                           messages[Len(messages)])

\* def get_messages(self, chatroom_id, limit=50, before_timestamp=None)
DefaultLimit == 50
\* None where a time may stand
NoTime == [some |-> FALSE, val |-> 0]

\* `if before_timestamp:` is false for None and for 0
Truthy(before_timestamp) == before_timestamp.some /\ before_timestamp.val # 0

\* messages[:limit] for limit >= 0
FirstN(seq, n) == SubSeq(seq, 1, IF n < Len(seq) THEN n ELSE Len(seq))

\* Returns the list of messages; the sort is of the loaded copy, nothing is written
get_messages(store, chatroom_id, limit, before_timestamp) ==
    IF ~chatroom_exists(store, chatroom_id) THEN <<>>
    ELSE LET chatroom_data == get_chatroom(store, chatroom_id)
             Before(m) == m.timestamp < before_timestamp.val
             messages == IF Truthy(before_timestamp)
                         THEN SelectSeq(chatroom_data.messages, Before)
                         ELSE chatroom_data.messages
         IN  FirstN(SortNewestFirst(messages), limit)

\* The entry of get_user_chatrooms for one chatroom
Summary(chatroom_data) ==
    [id |-> chatroom_data.id, name |-> chatroom_data.name,
     creator |-> chatroom_data.creator, members |-> chatroom_data.members,
     created_at |-> chatroom_data.created_at,
     message_count |-> Len(chatroom_data.messages)]

\* listing is os.listdir's order of the chatroom files
RECURSIVE get_user_chatrooms(_, _, _)
get_user_chatrooms(store, username, listing) ==
    IF listing = <<>> THEN <<>>
    ELSE LET chatroom_data == store[listing[1]]
             rest == get_user_chatrooms(store, username, SubSeq(listing, 2, Len(listing)))
         IN  IF username \in Range(chatroom_data.members)
             THEN <<Summary(chatroom_data)>> \o rest
             ELSE rest

-----------------------------------------------------------------------------
(* ChatroomManager: inputs *)

Users == { <<"a">>, <<"b">> }

RoomNames == { <<"T">>, DM_PREFIX \o <<"x">> }

\* The members argument of create_chatroom: omitted, one user, one user twice
InitialMembers ==
    { NoneV, Some(<< <<"b">> >>), Some(<< <<"b">>, <<"b">> >>) }

Contents == { <<"h", "i">> }

\* message_type and file_info of add_message: the defaults
MessageKinds ==
    { [type |-> "text", file_info |-> NoneV] }

\* os.listdir lists the files in an arbitrary order, which stays the same
\* while the directory does: a new file takes any place among the others.
InsertAt(listing, pos, chatroom_id) ==
    SubSeq(listing, 1, pos - 1) \o <<chatroom_id>> \o SubSeq(listing, pos, Len(listing))

-----------------------------------------------------------------------------
(* ChatroomManager: the state after ChatroomManager() with an empty var/ *)

NoOutcome == [op |-> "init", room |-> 0, user |-> <<>>, ok |-> FALSE, msg |-> "",
              id |-> 0, is_new |-> FALSE, data |-> <<>>,
              limit |-> 0, before |-> NoTime, rooms |-> <<>>,
              user2 |-> <<>>, after |-> "other", name |-> <<>>]

InitStore ==
    /\ chatrooms = [id \in {} |-> 0]
    /\ roomdirs = {}
    /\ dirlist = <<>>
    /\ outcome = NoOutcome
    /\ nmsgs = 0

-----------------------------------------------------------------------------
(* ChatroomManager: the calls, one at a time *)

CreateChatroom(name, creator, members, t, pos) ==
    LET r == create_chatroom(chatrooms, name, creator, members,
                             generate_chatroom_id(chatrooms), t)
    IN  /\ CanCreate(chatrooms)
        /\ chatrooms' = r.store
        /\ roomdirs' = roomdirs \cup {r.dir}
        /\ dirlist' = InsertAt(dirlist, pos, r.id)
        /\ now' = t
        /\ outcome' = [NoOutcome EXCEPT !.op = "create_chatroom", !.name = name,
                                        !.user = creator,
                                        !.ok = r.ok, !.msg = r.msg, !.id = r.id]
        /\ UNCHANGED nmsgs
        /\ UNCHANGED <<channelVars, threadVars>>

AddMember(chatroom_id, username) ==
    LET r == add_member(chatrooms, chatroom_id, username)
    IN  /\ chatrooms' = r.store
        /\ outcome' = [NoOutcome EXCEPT !.op = "add_member", !.room = chatroom_id,
                                        !.user = username, !.ok = r.ok,
                                        !.msg = r.msg]
        /\ UNCHANGED <<roomdirs, dirlist, nmsgs, now>>
        /\ UNCHANGED <<channelVars, threadVars>>

RemoveMember(chatroom_id, username) ==
    LET r == remove_member(chatrooms, chatroom_id, username)
    IN  /\ chatrooms' = r.store
        /\ outcome' = [NoOutcome EXCEPT !.op = "remove_member", !.room = chatroom_id,
                                        !.user = username, !.ok = r.ok,
                                        !.msg = r.msg]
        /\ UNCHANGED <<roomdirs, dirlist, nmsgs, now>>
        /\ UNCHANGED <<channelVars, threadVars>>

AddMessage(chatroom_id, sender, content, kind, t) ==
    LET r == add_message(chatrooms, chatroom_id, sender, content, kind.type,
                         kind.file_info, nmsgs + 1, t)
    IN  /\ r.ok => nmsgs < MaxMessages
        /\ chatrooms' = r.store
        /\ nmsgs' = IF r.ok THEN nmsgs + 1 ELSE nmsgs
        /\ now' = IF r.ok THEN t ELSE now
        /\ outcome' = [NoOutcome EXCEPT !.op = "add_message", !.room = chatroom_id,
                                        !.user = sender, !.ok = r.ok,
                                        !.msg = r.msg, !.data = r.data]
        /\ UNCHANGED <<roomdirs, dirlist>>
        /\ UNCHANGED <<channelVars, threadVars>>

\* What the call before a create_direct_message(user1, user2) was: one for
\* the same two users that made the chatroom, one that found it, or another
AfterCall(before, user1, user2) ==
    IF before.op = "create_direct_message" /\ {before.user, before.user2} = {user1, user2}
    THEN IF before.is_new THEN "created" ELSE "found"
    ELSE "other"

CreateDirectMessage(user1, user2, t, pos) ==
    LET r == create_direct_message(chatrooms, user1, user2, dirlist,
                                   generate_chatroom_id(chatrooms), t)
    IN  /\ r.is_new => CanCreate(chatrooms)
        /\ chatrooms' = r.store
        /\ roomdirs' = IF r.is_new THEN roomdirs \cup {r.dir} ELSE roomdirs
        /\ dirlist' = IF r.is_new THEN InsertAt(dirlist, pos, r.id) ELSE dirlist
        /\ now' = IF r.is_new THEN t ELSE now
        /\ outcome' = [NoOutcome EXCEPT !.op = "create_direct_message",
                                        !.user = user1, !.user2 = user2,
                                        !.ok = TRUE, !.id = r.id,
                                        !.is_new = r.is_new,
                                        !.after = AfterCall(outcome, user1, user2)]
        /\ UNCHANGED nmsgs
        /\ UNCHANGED <<channelVars, threadVars>>

\* get_messages and get_user_chatrooms write nothing
GetMessages(chatroom_id, limit, before_timestamp) ==
    /\ outcome' = [NoOutcome EXCEPT !.op = "get_messages", !.room = chatroom_id,
                                    !.limit = limit, !.before = before_timestamp,
                                    !.data = get_messages(chatrooms, chatroom_id, limit,
                                                          before_timestamp)]
    /\ UNCHANGED <<chatrooms, roomdirs, dirlist, nmsgs, now>>
    /\ UNCHANGED <<channelVars, threadVars>>

GetUserChatrooms(username) ==
    /\ outcome' = [NoOutcome EXCEPT !.op = "get_user_chatrooms", !.user = username,
                                    !.rooms = get_user_chatrooms(chatrooms, username,
                                                                 dirlist)]
    /\ UNCHANGED <<chatrooms, roomdirs, dirlist, nmsgs, now>>
    /\ UNCHANGED <<channelVars, threadVars>>

NextStore ==
    \/ \E name \in RoomNames, creator \in Users, members \in InitialMembers,
          pos \in 1..Len(dirlist) + 1 :
           CreateChatroom(name, creator, members, now + 1, pos)
    \/ \E id \in RoomIds, u \in Users : AddMember(id, u)
    \/ \E id \in RoomIds, u \in Users : RemoveMember(id, u)
    \/ \E u1 \in Users, u2 \in Users, pos \in 1..Len(dirlist) + 1 :
           CreateDirectMessage(u1, u2, now + 1, pos)

-----------------------------------------------------------------------------
(* The specifications *)

Threads == {1, 2}

\* No thread is in a call
NoFrame == [op |-> "none"]

InitThreads ==
    /\ pc = [t \in Threads |-> "idle"]
    /\ frame = [t \in Threads |-> NoFrame]
    /\ lock = 0

Init == InitChannel /\ InitStore /\ InitThreads

Next ==
    \/ \E a \in CommandAddresses : SubmitInfo(a)
    \/ \E a \in CommandAddresses, p \in PeerAddresses : PeerConnect(a, p)
    \/ \E a \in CommandAddresses : ExitNode(a)
    \/ \E a \in CommandAddresses, r \in PeerAddresses, m \in ChatTexts : SendChat(a, r, m)
    \/ \E a \in CommandAddresses, r \in PeerAddresses, d \in FileDatas : SendFile(a, r, d)
    \/ \E a \in Addresses : GetResponse(a, now)
    \/ \E a \in Addresses : GetAllResponses(a)
    \/ \E a \in Addresses : ClearResponses(a)
    \/ \E f \in FileIds, text \in NodeOutputs :
           nwrites < MaxNodeWrites /\ NodeWrite(f, text)

Spec == Init /\ [][Next]_vars

\* The chatrooms, their members and the direct messages, without messages
SpecStore == Init /\ [][NextStore]_vars

\* The message logs: every method of the ChatroomManager, with one chatroom
\* made by create_chatroom and one by create_direct_message, each new file
\* listed last, and get_messages called with its default arguments.

NextMessages ==
    \/ CreateChatroom(<<"T">>, <<"a">>, Some(<< <<"b">> >>), now + 1, Len(dirlist) + 1)
    \/ CreateDirectMessage(<<"a">>, <<"b">>, now + 1, Len(dirlist) + 1)
    \/ \E id \in RoomIds : AddMember(id, <<"b">>)
    \/ \E id \in RoomIds : RemoveMember(id, <<"b">>)
    \/ \E id \in RoomIds, u \in Users, c \in Contents, k \in MessageKinds :
           AddMessage(id, u, c, k, now + 1)
    \/ \E id \in RoomIds : GetMessages(id, DefaultLimit, NoTime)
    \/ \E u \in Users : GetUserChatrooms(u)

SpecMessages == Init /\ [][NextMessages]_vars

\* Reading the history: get_messages with every limit and before_timestamp
\* of Limits and Befores, on logs whose messages may have equal timestamps
\* (time.time() may return the same value twice).
Limits == {0, 1, 2}
Befores == { NoTime, Some(0), Some(3), Some(4) }

NextHistory ==
    \/ CreateChatroom(<<"T">>, <<"a">>, NoneV, now + 1, Len(dirlist) + 1)
    \/ \E id \in RoomIds, c \in Contents, k \in MessageKinds, t \in {now, now + 1} :
           AddMessage(id, <<"a">>, c, k, t)
    \/ \E id \in RoomIds, limit \in Limits, before \in Befores :
           GetMessages(id, limit, before)

SpecHistory == Init /\ [][NextHistory]_vars

-----------------------------------------------------------------------------
(* The ledger over a long run: one node that writes numbered results to the
   slot of one address, each after the front end has consumed the one before *)

LedgerAddress == <<"h", ":", "1">>

Digit == <<"0", "1", "2", "3", "4", "5", "6", "7", "8", "9">>

\* The decimal digits of n
RECURSIVE Decimal(_)
Decimal(n) ==
    IF n < 10 THEN <<Digit[n + 1]>>
    ELSE Decimal(n \div 10) \o <<Digit[(n % 10) + 1]>>

\* The text of the node's n-th result
Result(n) == <<"r">> \o Decimal(n) \o <<"\n">>

NodeWriteNext ==
    /\ nwrites < MaxLedgerWrites
    /\ ~outfile[_format_node_address(LedgerAddress)].exists
       \/ Strip(outfile[_format_node_address(LedgerAddress)].content) = <<>>
    /\ NodeWrite(_format_node_address(LedgerAddress), Result(nwrites + 1))

NextLedger ==
    \/ NodeWriteNext
    \/ GetResponse(LedgerAddress, now)
    \/ GetAllResponses(LedgerAddress)
    \/ ClearResponses(LedgerAddress)

SpecLedger == Init /\ [][NextLedger]_vars

-----------------------------------------------------------------------------
(* The ledger under threads: each thread calls get_response,
   get_all_responses and clear_responses for one address, one statement at
   a time, while the node writes numbered results whenever it likes. The
   behaviours start where a run of SpecLedger has left MaxResponses - 1
   entries in the ledger. *)

\* node writes in one behaviour of SpecLedgerThreads
MaxThreadWrites == 2

Prefilled == MaxResponses - 1

\* Mutant: the lock is taken whoever holds it
CanAcquire_nolock(l) == TRUE

\* `with self.lock:` goes on when no thread holds the lock
CanAcquire(l) == l = 0

\* _read_from_node up to the test of the content: the value it will return
read_out(files, node_address) ==
    LET out_file == files[_format_node_address(node_address)]
        content == Strip(out_file.content)
    IN  IF out_file.exists /\ content # <<>> /\ content # DONE
        THEN Some(content)
        ELSE NoneV

\* _read_from_node: open(out_file, 'w') and f.write("")
clear_out(files, node_address) ==
    [files EXCEPT ![_format_node_address(node_address)] = File(<<>>)]

\* get_response: the entry is appended, under a new key if there is none
record(resp, node_address, response, t) ==
    LET resp1 == IF node_address \notin DOMAIN resp
                 THEN DictSet(resp, node_address, <<>>)
                 ELSE resp
    IN  DictSet(resp1, node_address,
                Append(resp1[node_address], [content |-> response, timestamp |-> t]))

\* get_response: keep only the last 100 responses
trim(resp, node_address) ==
    IF Len(resp[node_address]) > MaxResponses
    THEN DictSet(resp, node_address, LastN(resp[node_address], MaxResponses))
    ELSE resp

LedgerOps == {"get_response", "get_all_responses", "clear_responses"}

\* The frame of a call: the method, the local variable response of
\* get_response and the list get_all_responses returns
LedgerFrame(op) == [op |-> op, response |-> NoneV, hist |-> <<>>]

InitLedgerThreads ==
    /\ infile = [f \in FileIds |-> NoFile]
    /\ outfile = [f \in FileIds |->
                    IF f = _format_node_address(LedgerAddress) THEN File(<<>>) ELSE NoFile]
    /\ responses = (LedgerAddress :>
                       [i \in 1..Prefilled |->
                           [content |-> Strip(Result(i)), timestamp |-> i + 1]])
    /\ now = Prefilled + 1
    /\ last = [NoCall EXCEPT !.op = "get_response", !.addr = LedgerAddress,
                             !.ret = Some(Strip(Result(Prefilled)))]
    /\ nwrites = Prefilled
    /\ sinceWrite = [f \in FileIds |-> FALSE]
    /\ returned = [a \in Addresses |->
                     IF a = LedgerAddress
                     THEN [i \in 1..Prefilled |-> Strip(Result(i))]
                     ELSE <<>>]
    /\ InitStore
    /\ pc = [t \in Threads |-> "idle"]
    /\ frame = [t \in Threads |-> NoFrame]
    /\ lock = 0

\* The thread's statements. Each leaves the variables of the other thread,
\* of the command files and of the ChatroomManager alone.
Goto(t, label) == pc' = [pc EXCEPT ![t] = label]

\* A thread calls one of the three methods and arrives at `with self.lock:`
LedgerCall(t, op) ==
    /\ pc[t] = "idle"
    /\ Goto(t, "lock")
    /\ frame' = [frame EXCEPT ![t] = LedgerFrame(op)]
    /\ UNCHANGED <<channelVars, now, storeVars, lock>>

LockAcquire(t) ==
    /\ pc[t] = "lock"
    /\ CanAcquire(lock)
    /\ lock' = t
    /\ Goto(t, CASE frame[t].op = "get_response" -> "read"
                 [] frame[t].op = "get_all_responses" -> "load"
                 [] frame[t].op = "clear_responses" -> "reset")
    /\ UNCHANGED <<channelVars, now, storeVars, frame>>

\* get_response: _read_from_node reads the result slot
ReadOut(t) ==
    LET response == read_out(outfile, LedgerAddress)
        f == _format_node_address(LedgerAddress)
    IN  /\ pc[t] = "read"
        /\ frame' = [frame EXCEPT ![t].response = response]
        /\ Goto(t, IF response.some THEN "clear" ELSE "unlock")
        /\ sinceWrite' = IF response.some
                         THEN [sinceWrite EXCEPT ![f] = FALSE]
                         ELSE sinceWrite
        /\ UNCHANGED <<infile, outfile, responses, last, nwrites, returned>>
        /\ UNCHANGED <<now, storeVars, lock>>

\* get_response: _read_from_node empties the result slot
ClearOut(t) ==
    /\ pc[t] = "clear"
    /\ outfile' = clear_out(outfile, LedgerAddress)
    /\ Goto(t, "record")
    /\ UNCHANGED <<infile, responses, last, nwrites, sinceWrite, returned>>
    /\ UNCHANGED <<now, storeVars, frame, lock>>

\* get_response: the response is appended to the ledger
Record(t) ==
    /\ pc[t] = "record"
    /\ responses' = record(responses, LedgerAddress, frame[t].response.val, now)
    /\ Goto(t, "trim")
    /\ UNCHANGED <<infile, outfile, last, nwrites, sinceWrite, returned>>
    /\ UNCHANGED <<now, storeVars, frame, lock>>

\* get_response: the ledger is cut to its last 100 entries
Trim(t) ==
    /\ pc[t] = "trim"
    /\ responses' = trim(responses, LedgerAddress)
    /\ Goto(t, "unlock")
    /\ UNCHANGED <<infile, outfile, last, nwrites, sinceWrite, returned>>
    /\ UNCHANGED <<now, storeVars, frame, lock>>

\* get_all_responses: the list to return
Load(t) ==
    /\ pc[t] = "load"
    /\ frame' = [frame EXCEPT ![t].hist = get_all_responses(responses, LedgerAddress)]
    /\ Goto(t, "unlock")
    /\ UNCHANGED <<channelVars, now, storeVars, lock>>

\* clear_responses: the ledger of the address is emptied
Reset(t) ==
    /\ pc[t] = "reset"
    /\ responses' = clear_responses(responses, LedgerAddress)
    /\ returned' = [returned EXCEPT ![LedgerAddress] = <<>>]
    /\ Goto(t, "unlock")
    /\ UNCHANGED <<infile, outfile, last, nwrites, sinceWrite>>
    /\ UNCHANGED <<now, storeVars, frame, lock>>

\* The with block is left, which releases the lock, and the call returns
Unlock(t) ==
    /\ pc[t] = "unlock"
    /\ lock' = IF lock = t THEN 0 ELSE lock
    /\ Goto(t, "idle")
    /\ returned' = IF frame[t].op = "get_response" /\ frame[t].response.some
                   THEN [returned EXCEPT ![LedgerAddress] = Append(@, frame[t].response.val)]
                   ELSE returned
    /\ UNCHANGED <<infile, outfile, responses, last, nwrites, sinceWrite>>
    /\ UNCHANGED <<now, storeVars, frame>>

\* What a thread does once it is in a call
LedgerProceed(t) ==
    \/ LockAcquire(t)
    \/ ReadOut(t)
    \/ ClearOut(t)
    \/ Record(t)
    \/ Trim(t)
    \/ Load(t)
    \/ Reset(t)
    \/ Unlock(t)

\* The node writes its next result, read or not the one before
NodeWriteAnytime ==
    /\ nwrites < Prefilled + MaxThreadWrites
    /\ NodeWrite(_format_node_address(LedgerAddress), Result(nwrites + 1))

NextLedgerThreads ==
    \/ \E t \in Threads, op \in LedgerOps : LedgerCall(t, op)
    \/ \E t \in Threads : LedgerProceed(t)
    \/ NodeWriteAnytime

\* A thread that is in a call and can go on does go on
SpecLedgerThreads ==
    /\ InitLedgerThreads
    /\ [][NextLedgerThreads]_vars
    /\ \A t \in Threads : WF_vars(LedgerProceed(t))

-----------------------------------------------------------------------------
(* The ChatroomManager under threads: two threads, each making one call of
   add_message, add_member or remove_member, one statement at a time, on
   two chatrooms made by create_chatroom("T", "a", ["b"]). No method of the
   ChatroomManager takes a lock. *)

\* Mutant: every chatroom is kept in one and the same file
store_write_onefile(store, chatroom_id, chatroom_data) ==
    [id \in DOMAIN store |-> chatroom_data]

\* with open(chatroom_file, 'w') as f: json.dump(chatroom_data, f)
store_write(store, chatroom_id, chatroom_data) ==
    DictSet(store, chatroom_id, chatroom_data)

\* The calls a thread may make: the sender, the user added, the user removed
StoreOps == {"add_message", "add_member", "remove_member"}

UserOf(op) ==
    CASE op = "add_message" -> <<"a">>
      [] op = "add_member" -> <<"c">>
      [] op = "remove_member" -> <<"b">>

\* A chatroom record that stands for "not loaded yet"
NoRoom == [id |-> 0, name |-> <<>>, creator |-> <<>>, created_at |-> 0,
           members |-> <<>>, messages |-> <<>>]

\* The frame of a call: the method, its arguments, the chatroom_data it
\* has loaded, what it returns, and whether the other thread was in a call
\* when this one began
StoreFrame(op, chatroom_id, overlapped) ==
    [op |-> op, room |-> chatroom_id, user |-> UserOf(op),
     chatroom_data |-> NoRoom, ok |-> FALSE, msg |-> "", overlapped |-> overlapped]

InitStoreThreads ==
    /\ infile = [f \in FileIds |-> NoFile]
    /\ outfile = [f \in FileIds |-> NoFile]
    /\ responses = [a \in {} |-> <<>>]
    /\ last = NoCall
    /\ nwrites = 0
    /\ sinceWrite = [f \in FileIds |-> FALSE]
    /\ returned = [a \in Addresses |-> <<>>]
    /\ chatrooms = [id \in RoomIds |->
                       [id |-> id, name |-> <<"T">>, creator |-> <<"a">>,
                        created_at |-> id + 1,
                        members |-> << <<"b">>, <<"a">> >>, messages |-> <<>>]]
    /\ roomdirs = RoomIds
    /\ dirlist = <<1, 2>>
    /\ now = 3
    /\ outcome = [NoOutcome EXCEPT !.op = "create_chatroom", !.name = <<"T">>,
                                   !.user = <<"a">>, !.ok = TRUE, !.msg = CREATED,
                                   !.id = 2]
    /\ nmsgs = 0
    /\ pc = [t \in Threads |-> "idle"]
    /\ frame = [t \in Threads |-> NoFrame]
    /\ lock = 0

\* The thread is between the first and the last statement of a call
InCall(t) == pc[t] \notin {"idle", "done"}

\* A thread calls the method
StoreCall(t, op, chatroom_id) ==
    /\ pc[t] = "idle"
    /\ Goto(t, "exists")
    /\ frame' = [frame EXCEPT ![t] =
                    StoreFrame(op, chatroom_id, \E u \in Threads \ {t} : InCall(u))]
    /\ UNCHANGED <<channelVars, now, storeVars, lock>>

\* if not self.chatroom_exists(chatroom_id): return False, "Chatroom does not exist"
CheckExists(t) ==
    /\ pc[t] = "exists"
    /\ IF chatroom_exists(chatrooms, frame[t].room)
       THEN /\ Goto(t, "load")
            /\ UNCHANGED frame
       ELSE /\ Goto(t, "done")
            /\ frame' = [frame EXCEPT ![t].msg = NOT_EXIST]
    /\ UNCHANGED <<channelVars, now, storeVars, lock>>

\* chatroom_data = self.get_chatroom(chatroom_id)
LoadRoom(t) ==
    /\ pc[t] = "load"
    /\ frame' = [frame EXCEPT ![t].chatroom_data = get_chatroom(chatrooms, frame[t].room)]
    /\ Goto(t, "write")
    /\ UNCHANGED <<channelVars, now, storeVars, lock>>

\* The rest of the method, computed on the chatroom_data the thread has
\* loaded: the tests, the change and the write of the file
Applied(t) ==
    LET loaded == (frame[t].room :> frame[t].chatroom_data)
    IN  CASE frame[t].op = "add_message" ->
                 add_message(loaded, frame[t].room, frame[t].user, <<"h", "i">>,
                             "text", NoneV, t, now)
          [] frame[t].op = "add_member" ->
                 add_member(loaded, frame[t].room, frame[t].user)
          [] frame[t].op = "remove_member" ->
                 remove_member(loaded, frame[t].room, frame[t].user)

WriteRoom(t) ==
    LET r == Applied(t)
    IN  /\ pc[t] = "write"
        /\ chatrooms' = IF r.ok
                        THEN store_write(chatrooms, frame[t].room, r.store[frame[t].room])
                        ELSE chatrooms
        /\ frame' = [frame EXCEPT ![t].ok = r.ok, ![t].msg = r.msg]
        /\ Goto(t, "done")
        /\ UNCHANGED <<channelVars, now, roomdirs, dirlist, outcome, nmsgs, lock>>

NextStoreThreads ==
    \/ \E t \in Threads, op \in StoreOps, id \in RoomIds : StoreCall(t, op, id)
    \/ \E t \in Threads : CheckExists(t)
    \/ \E t \in Threads : LoadRoom(t)
    \/ \E t \in Threads : WriteRoom(t)

SpecStoreThreads == InitStoreThreads /\ [][NextStoreThreads]_vars

-----------------------------------------------------------------------------
(* create_direct_message under threads: two threads, each making one call,
   one statement at a time, on a store that holds no chatroom yet *)

\* The frame of a call: the arguments, what the scan found, what the call
\* returns, and whether the other thread was in a call when this one began
ResolveFrame(user1, user2, overlapped) ==
    [op |-> "create_direct_message", user1 |-> user1, user2 |-> user2,
     found |-> NoId, id |-> 0, is_new |-> FALSE, overlapped |-> overlapped]

ResolveCall(t, user1, user2) ==
    /\ pc[t] = "idle"
    /\ Goto(t, "scan")
    /\ frame' = [frame EXCEPT ![t] =
                    ResolveFrame(user1, user2, \E u \in Threads \ {t} : InCall(u))]
    /\ UNCHANGED <<channelVars, now, storeVars, lock>>

\* The loop over os.listdir: an existing chatroom is returned with False
Scan(t) ==
    LET found == find_direct_message(chatrooms, frame[t].user1, frame[t].user2, dirlist)
    IN  /\ pc[t] = "scan"
        /\ frame' = [frame EXCEPT ![t].found = found,
                                  ![t].id = IF found.some THEN found.val ELSE 0]
        /\ Goto(t, IF found.some THEN "done" ELSE "create")
        /\ UNCHANGED <<channelVars, now, storeVars, lock>>

\* self.create_chatroom(name=dm_name, creator=users[0], members=users), and
\* the id is returned with True
ScanMissed(t, pos) ==
    LET users == Sorted2(frame[t].user1, frame[t].user2)
        r == create_chatroom(chatrooms, DM_PREFIX \o users[1] \o <<"_">> \o users[2],
                             users[1], Some(users),
                             generate_chatroom_id(chatrooms), now + 1)
    IN  /\ pc[t] = "create"
        /\ CanCreate(chatrooms)
        /\ chatrooms' = r.store
        /\ roomdirs' = roomdirs \cup {r.dir}
        /\ dirlist' = InsertAt(dirlist, pos, r.id)
        /\ now' = now + 1
        /\ frame' = [frame EXCEPT ![t].id = r.id, ![t].is_new = TRUE]
        /\ Goto(t, "done")
        /\ UNCHANGED <<channelVars, outcome, nmsgs, lock>>

NextResolveThreads ==
    \/ \E t \in Threads, user1 \in Users, user2 \in Users : ResolveCall(t, user1, user2)
    \/ \E t \in Threads : Scan(t)
    \/ \E t \in Threads, pos \in 1..Len(dirlist) + 1 : ScanMissed(t, pos)

SpecResolveThreads == Init /\ [][NextResolveThreads]_vars

-----------------------------------------------------------------------------
(* Properties of the command channel *)

\* A result slot holds real content: something besides whitespace and the sentinel
HasReal(slot) ==
    /\ slot.exists
    /\ Strip(slot.content) # <<>>
    /\ Strip(slot.content) # DONE

\* The trimmed results the node outputs of the model amount to
OK == <<"o", "k">>

\* C1: at-most-once hand-off. A get_response that finds real content in the
\* address's result slot returns that content, trimmed, and leaves the slot
\* present and empty; and a get_response returns content only when the node
\* has written the slot since the last get_response that returned content from
\* it, so a second poll with no node write in between returns nothing and no
\* node write is returned twice.
C1_AtMostOnceHandOff ==
    [][ \A a \in Addresses :
          (last'.op = "get_response" /\ last'.addr = a) =>
            LET f == _format_node_address(a)
            IN  /\ HasReal(outfile[f]) =>
                     /\ last'.ret = Some(Strip(outfile[f].content))
                     /\ outfile'[f] = File(<<>>)
                /\ last'.ret.some => sinceWrite[f]
      ]_vars

\* C1 witness: a second poll of a slot that an earlier poll emptied, with no
\* node write in between, has returned nothing.
C1_Witness ==
    /\ last.op = "get_response"
    /\ ~last.ret.some
    /\ outfile[_format_node_address(last.addr)] = File(<<>>)
    /\ ~sinceWrite[_format_node_address(last.addr)]
    /\ returned[last.addr] = <<OK>>

\* C2: neither a value returned by get_response, nor the content of a ledger
\* entry, nor an entry get_all_responses returned, is the sentinel "done" or the
\* empty string.
C2_SentinelNeverSurfaces ==
    /\ (last.op = "get_response" /\ last.ret.some) =>
           last.ret.val \notin {DONE, <<>>}
    /\ \A a \in DOMAIN responses :
           \A i \in 1..Len(responses[a]) :
               responses[a][i].content \notin {DONE, <<>>}
    /\ \A i \in 1..Len(last.hist) : last.hist[i].content \notin {DONE, <<>>}

\* C2 witness: the node left the sentinel (with surrounding whitespace) in a
\* slot, a poll of it returned nothing, and the ledger holds an earlier result.
C2_Witness ==
    /\ last.op = "get_response"
    /\ ~last.ret.some
    /\ outfile[_format_node_address(last.addr)] = File(<<" ">> \o DONE \o <<"\n">>)
    /\ \E a \in DOMAIN responses : Len(responses[a]) = 1

\* C3: a get_response of an address whose result slot is absent, empty (also
\* after trimming) or holds the sentinel returns nothing and leaves every
\* result slot, every command slot and the whole ledger as they were.
C3_EmptyPollChangesNothing ==
    [][ \A a \in Addresses :
          ( /\ last'.op = "get_response"
            /\ last'.addr = a
            /\ ~HasReal(outfile[_format_node_address(a)]) ) =>
            /\ ~last'.ret.some
            /\ outfile' = outfile
            /\ infile' = infile
            /\ responses' = responses
      ]_vars

\* C3 witness: a poll of an address never polled with success, whose slot
\* holds the bare sentinel, returned nothing while a command is pending.
C3_Witness ==
    /\ last.op = "get_response"
    /\ ~last.ret.some
    /\ outfile[_format_node_address(last.addr)] = File(DONE)
    /\ infile[_format_node_address(last.addr)].exists
    /\ last.addr \notin DOMAIN responses

\* The line each submit method is to leave in the command slot, spelled out
ExpectedLine(call) ==
    CASE call.op = "submit_info" ->
            <<"s", "u", "b", "m", "i", "t", "_", "i", "n", "f", "o">>
      [] call.op = "peer_connect" ->
            <<"p", "e", "e", "r", "_", "c", "o", "n", "n", "e", "c", "t", ":">>
                \o call.peer
      [] call.op = "exit_node" ->
            <<"e", "x", "i", "t">>
      [] call.op = "send_chat" ->
            <<"s", "e", "n", "d", "_", "c", "h", "a", "t", ":">>
                \o call.peer \o <<":">> \o call.text
      [] call.op = "send_file" ->
            <<"s", "e", "n", "d", "_", "f", "i", "l", "e", ":">>
                \o call.peer
                \o <<":", "{", "\"", "n", "a", "m", "e", "\"", ":", " ", "\"">>
                \o call.file.name \o <<"\"", "}">>

\* C4: the command slot is overwritten, not appended to: right after a submit
\* the address's command slot holds exactly the line of that submit, whatever
\* was pending before; get_response, get_all_responses, clear_responses and
\* the node's result writes leave every command slot as it was.
C4_SingleOverwriteSlot ==
    [][ /\ last'.op \in SubmitOps =>
             /\ infile'[_format_node_address(last'.addr)]
                    = File(ExpectedLine(last'))
             /\ last'.ok
        /\ last'.op \notin SubmitOps => infile' = infile
      ]_vars

\* C4 witness: send_chat("b:7", "hi") to h:1 left exactly "send_chat:b:7:hi"
\* in the slot, and polls have returned results of that slot before.
C4_Witness ==
    /\ last.op = "send_chat"
    /\ last.addr = <<"h", ":", "1">>
    /\ infile[<<"h", "_", "1">>] =
           File(<<"s", "e", "n", "d", "_", "c", "h", "a", "t", ":",
                  "b", ":", "7", ":", "h", "i">>)
    /\ Len(returned[<<"h", ":", "1">>]) > 0

\* C5 as claimed: a get_response that directly follows a submit to the same
\* address returns nothing, whatever happened before the submit.
C5_PollAfterSubmitReturnsNothing ==
    (last.op = "get_response" /\ last.followsSubmit) => ~last.ret.some

\* C5 amended: a submit leaves every result slot as it was; a get_response
\* that directly follows a submit to the same address returns nothing unless
\* the slot already held an unconsumed real result, which it then returns;
\* and it never returns the sentinel.
C5_PollAfterSubmitAmended ==
    [][ /\ last'.op \in SubmitOps => outfile' = outfile
        /\ (last'.op = "get_response" /\ last'.followsSubmit) =>
             /\ last'.ret.some <=> HasReal(outfile[_format_node_address(last.addr)])
             /\ last'.ret.val # DONE
      ]_vars

\* C5 witness: a poll directly after a submit returned nothing from a slot
\* that holds the sentinel.
C5_Witness ==
    /\ last.op = "get_response"
    /\ last.followsSubmit
    /\ ~last.ret.some
    /\ infile[_format_node_address(last.addr)].exists
    /\ outfile[_format_node_address(last.addr)].exists
    /\ Strip(outfile[_format_node_address(last.addr)].content) = DONE
    /\ nwrites = 1

\* C6 as claimed: _format_node_address is injective, so a submit to one
\* address leaves the command slot of every other address as it was, and a
\* get_response of one address leaves the result slot of every other address
\* as it was.
C6_DistinctAddressesDistinctSlots ==
    [][ \A a, b \in Addresses :
          (a # b /\ last'.addr = a) =>
            /\ _format_node_address(a) # _format_node_address(b)
            /\ last'.op \in SubmitOps =>
                 infile'[_format_node_address(b)] = infile[_format_node_address(b)]
            /\ last'.op = "get_response" =>
                 outfile'[_format_node_address(b)] = outfile[_format_node_address(b)]
      ]_vars

-----------------------------------------------------------------------------
(* Properties of the response ledger *)

\* C7: for each address the history get_all_responses returns has at most
\* 100 entries and its contents are, oldest first, the last min(n, 100) of the
\* n contents get_response returned for the address since its last
\* clear_responses; it is empty for an address unseen or just cleared.
C7_LedgerBoundAndOrder ==
    \A a \in Addresses :
        LET history == get_all_responses(responses, a)
            n == Len(returned[a])
            kept == IF n < 100 THEN n ELSE 100
        IN  /\ Len(history) <= 100
            /\ Len(history) = kept
            /\ \A i \in 1..kept : history[i].content = returned[a][n - kept + i]

\* C7 witness: 102 results were returned for the address and its history is
\* the results 3 to 102.
C7_Witness ==
    /\ Len(returned[LedgerAddress]) = 102
    /\ Len(responses[LedgerAddress]) = 100
    /\ responses[LedgerAddress][1].content = <<"r", "3">>
    /\ responses[LedgerAddress][100].content = <<"r", "1", "0", "2">>

-----------------------------------------------------------------------------
(* Properties of the chatroom store *)

Alice == <<"a">>
Bob == <<"b">>

\* C8: the creator of every chatroom that exists is one of its members.
C8_CreatorIsMember ==
    \A id \in DOMAIN chatrooms :
        chatrooms[id].creator \in Range(chatrooms[id].members)

\* C8 witness: a member that is not the creator has been removed from a
\* chatroom Alice created, and Alice is still a member.
C8_Witness ==
    /\ outcome.op = "remove_member"
    /\ outcome.ok
    /\ outcome.user = Bob
    /\ chatrooms[outcome.room].creator = Alice
    /\ chatrooms[outcome.room].members = <<Alice>>

\* C9: remove_member of the creator of an existing chatroom fails with
\* "Cannot remove the creator of the chatroom" (not with "User is not a
\* member", not with success) and leaves every chatroom record as it was.
C9_RemoveCreatorDenied ==
    [][ ( /\ outcome'.op = "remove_member"
          /\ outcome'.room \in DOMAIN chatrooms
          /\ outcome'.user = chatrooms[outcome'.room].creator ) =>
          /\ ~outcome'.ok
          /\ outcome'.msg = "Cannot remove the creator of the chatroom"
          /\ chatrooms' = chatrooms
      ]_vars

\* C9 witness: the removal of the creator was refused in a chatroom that has
\* another member.
C9_Witness ==
    /\ outcome.op = "remove_member"
    /\ ~outcome.ok
    /\ outcome.room \in DOMAIN chatrooms
    /\ outcome.user = chatrooms[outcome.room].creator
    /\ Len(chatrooms[outcome.room].members) = 2

\* C10: add_member and remove_member answer "Chatroom does not exist" for a
\* missing chatroom, add_member answers "User already a member" for a member
\* and remove_member "User is not a member" for a non-member; every failing
\* call leaves all chatroom records as they were; a successful call changes
\* only the members of the chatroom named, add_member by appending the user
\* at the end.
C10_MemberOutcomes ==
    [][ LET id == outcome'.room
            user == outcome'.user
            OnlyMembersChanged ==
                /\ DOMAIN chatrooms' = DOMAIN chatrooms
                /\ \A other \in DOMAIN chatrooms \ {id} :
                       chatrooms'[other] = chatrooms[other]
                /\ chatrooms'[id] =
                       [chatrooms[id] EXCEPT !.members = chatrooms'[id].members]
                /\ chatrooms'[id].members # chatrooms[id].members
        IN  /\ ~outcome'.ok /\ outcome'.op \in {"add_member", "remove_member"} =>
                 chatrooms' = chatrooms
            /\ outcome'.op = "add_member" =>
                 IF id \notin DOMAIN chatrooms
                 THEN ~outcome'.ok /\ outcome'.msg = "Chatroom does not exist"
                 ELSE IF user \in Range(chatrooms[id].members)
                 THEN ~outcome'.ok /\ outcome'.msg = "User already a member"
                 ELSE /\ outcome'.ok
                      /\ OnlyMembersChanged
                      /\ chatrooms'[id].members = Append(chatrooms[id].members, user)
            /\ outcome'.op = "remove_member" =>
                 IF id \notin DOMAIN chatrooms
                 THEN ~outcome'.ok /\ outcome'.msg = "Chatroom does not exist"
                 ELSE IF user \notin Range(chatrooms[id].members)
                 THEN ~outcome'.ok /\ outcome'.msg = "User is not a member"
                 ELSE outcome'.ok => OnlyMembersChanged
      ]_vars

\* C10 witness: add_member has appended Bob to the members of the second
\* chatroom, next to a first chatroom of which Bob is a member already.
C10_Witness ==
    /\ outcome.op = "add_member"
    /\ outcome.ok
    /\ outcome.room = 2
    /\ outcome.user = Bob
    /\ chatrooms[2].members = <<Alice, Bob>>
    /\ Bob \in Range(chatrooms[1].members)

-----------------------------------------------------------------------------
(* Properties of the message logs *)

\* The messages of a chatroom's file, none when there is no such file
Log(store, chatroom_id) ==
    IF chatroom_id \in DOMAIN store THEN store[chatroom_id].messages ELSE <<>>

\* The files and directories of the store
Persisted == <<chatrooms, roomdirs, dirlist>>

\* C11: add_message refuses a chatroom that does not exist ("Chatroom does
\* not exist") and a sender who is not a member ("Only members can send
\* messages"), and neither refusal changes a file; so every message that
\* enters a log has a sender who is a member when it is appended.
C11_OnlyMembersAppend ==
    [][ /\ (outcome'.op = "add_message" /\ outcome'.room \notin DOMAIN chatrooms)
            => /\ ~outcome'.ok
               /\ outcome'.msg = NOT_EXIST
               /\ Persisted' = Persisted
        /\ (/\ outcome'.op = "add_message"
            /\ outcome'.room \in DOMAIN chatrooms
            /\ outcome'.user \notin Range(chatrooms[outcome'.room].members))
            => /\ ~outcome'.ok
               /\ outcome'.msg = ONLY_MEMBERS
               /\ Persisted' = Persisted
        /\ \A id \in DOMAIN chatrooms' :
               \A m \in Range(Log(chatrooms', id)) \ Range(Log(chatrooms, id)) :
                   /\ id \in DOMAIN chatrooms
                   /\ m.sender \in Range(chatrooms[id].members)
      ]_vars

\* A sender who was removed is refused, and the message sent before stays
C11_Witness ==
    /\ outcome.op = "add_message"
    /\ ~outcome.ok
    /\ outcome.msg = ONLY_MEMBERS
    /\ \E m \in Range(Log(chatrooms, outcome.room)) :
           /\ m.sender = outcome.user
           /\ m.sender \notin Range(chatrooms[outcome.room].members)

\* seq is the beginning of longer
IsPrefix(seq, longer) ==
    /\ Len(seq) <= Len(longer)
    /\ SubSeq(longer, 1, Len(seq)) = seq

\* C12: whatever method is called (create_chatroom, add_member,
\* remove_member, add_message, get_messages, get_user_chatrooms,
\* create_direct_message), each chatroom's log before the call is the
\* beginning of its log after the call, and a successful add_message makes
\* the log of its chatroom longer by exactly the message it returns, at the end.
C12_LogsAppendOnly ==
    [][ \A id \in DOMAIN chatrooms :
            /\ id \in DOMAIN chatrooms'
            /\ IsPrefix(Log(chatrooms, id), Log(chatrooms', id))
            /\ (outcome'.op = "add_message" /\ outcome'.ok /\ outcome'.room = id)
                => Log(chatrooms', id) = Append(Log(chatrooms, id), outcome'.data[1])
      ]_vars

\* A message was appended to a log that held one already
C12_Witness ==
    /\ outcome.op = "add_message"
    /\ outcome.ok
    /\ Len(Log(chatrooms, outcome.room)) >= 2
    /\ Log(chatrooms, outcome.room)[Len(Log(chatrooms, outcome.room))] = outcome.data[1]

\* The places in log of the messages that pass the filter of before_timestamp
Passing(log, before_timestamp) ==
    { i \in 1..Len(log) : before_timestamp.some => log[i].timestamp < before_timestamp.val }

\* C13: get_messages, for every limit L >= 0 and optional before_timestamp,
\* returns at most L messages of the chatroom's log, each with a timestamp
\* strictly less than before_timestamp when one is given, in strictly
\* descending order of timestamp, and they are the L newest messages that
\* pass the filter; the call changes no file.
C13_GetMessagesNewestFirst ==
    [][ (outcome'.op = "get_messages" /\ outcome'.room \in DOMAIN chatrooms)
        => LET log == Log(chatrooms, outcome'.room)
               res == outcome'.data
               passing == Passing(log, outcome'.before)
           IN  /\ Persisted' = Persisted
               /\ Len(res) <= outcome'.limit
               /\ \A i \in 1..Len(res) : \E j \in passing : res[i] = log[j]
               /\ \A i, j \in 1..Len(res) :
                      i < j => res[i].timestamp > res[j].timestamp
               /\ \/ Len(res) = outcome'.limit
                  \/ Len(res) = Cardinality(passing)
               /\ \A j \in passing :
                      (\A i \in 1..Len(res) : res[i] # log[j])
                      => \A i \in 1..Len(res) : log[j].timestamp <= res[i].timestamp
      ]_vars

-----------------------------------------------------------------------------
(* Properties of the direct messages *)

\* A direct-message chatroom of the two users: the reserved prefix in its
\* name and exactly the two as its members
IsDirectMessage(chatroom_data, user1, user2) ==
    /\ StartsWith(chatroom_data.name, DM_PREFIX)
    /\ Range(chatroom_data.members) = {user1, user2}

DirectMessages(store, user1, user2) ==
    { id \in DOMAIN store : IsDirectMessage(store[id], user1, user2) }

\* C14: two consecutive calls of create_direct_message for the same two
\* users, in either order of the arguments, return the same chatroom id; the
\* first returns is_new = True when no direct-message chatroom of the two
\* existed, the second returns is_new = False and adds no chatroom.
C14_ResolveTwice ==
    [][ outcome'.op = "create_direct_message"
        => /\ DirectMessages(chatrooms, outcome'.user, outcome'.user2) = {}
              => /\ outcome'.is_new
                 /\ outcome'.id \notin DOMAIN chatrooms
                 /\ DOMAIN chatrooms' = DOMAIN chatrooms \cup {outcome'.id}
           /\ outcome'.after # "other"
              => /\ outcome'.id = outcome.id
                 /\ ~outcome'.is_new
                 /\ Persisted' = Persisted
      ]_vars

\* The second of two calls, with the arguments the other way round, after
\* the first made the chatroom
C14_Witness ==
    /\ outcome.op = "create_direct_message"
    /\ outcome.after = "created"
    /\ outcome.user = <<"b">>
    /\ outcome.user2 = <<"a">>
    /\ ~outcome.is_new
    /\ outcome.id \in DirectMessages(chatrooms, <<"a">>, <<"b">>)

\* C15: in every state reached by calls of create_direct_message,
\* create_chatroom, add_member, remove_member and add_message, one after
\* the other, there is at most one direct-message chatroom (reserved prefix
\* in the name, members exactly the two users) for each pair of users.
C15_OneDirectMessagePerPair ==
    \A user1 \in Users : \A user2 \in Users \ {user1} :
        Cardinality(DirectMessages(chatrooms, user1, user2)) <= 1

\* C16: create_chatroom always succeeds, also when a chatroom of the same
\* name exists; afterwards there is one chatroom more, the new one has the
\* given name and creator, an empty log and the creator among its members,
\* and the record of every chatroom that existed is unchanged.
C16_CreateAddsOneRoom ==
    [][ outcome'.op = "create_chatroom"
        => /\ outcome'.ok
           /\ outcome'.msg = CREATED
           /\ outcome'.id \notin DOMAIN chatrooms
           /\ DOMAIN chatrooms' = DOMAIN chatrooms \cup {outcome'.id}
           /\ Cardinality(DOMAIN chatrooms') = Cardinality(DOMAIN chatrooms) + 1
           /\ chatrooms'[outcome'.id].id = outcome'.id
           /\ chatrooms'[outcome'.id].name = outcome'.name
           /\ chatrooms'[outcome'.id].creator = outcome'.user
           /\ chatrooms'[outcome'.id].messages = <<>>
           /\ outcome'.user \in Range(chatrooms'[outcome'.id].members)
           /\ \A id \in DOMAIN chatrooms : chatrooms'[id] = chatrooms[id]
      ]_vars

\* A chatroom was created with the name another chatroom has
C16_Witness ==
    /\ outcome.op = "create_chatroom"
    /\ outcome.ok
    /\ \E id \in DOMAIN chatrooms \ {outcome.id} :
           chatrooms[id].name = chatrooms[outcome.id].name

\* C17: every id create_direct_message(user1, user2) returns is the id of a
\* chatroom whose name is "DM_" followed by the two users in lexicographic
\* order, whose members are exactly the two and whose creator is the
\* lexicographically first of them, whatever chatrooms create_chatroom made
\* before.
C17_ResolvedIsDirectMessage ==
    outcome.op = "create_direct_message"
    => LET users == Sorted2(outcome.user, outcome.user2)
           chatroom_data == chatrooms[outcome.id]
       IN  /\ outcome.id \in DOMAIN chatrooms
           /\ chatroom_data.name = DM_PREFIX \o users[1] \o <<"_">> \o users[2]
           /\ Range(chatroom_data.members) = {outcome.user, outcome.user2}
           /\ chatroom_data.creator = users[1]

-----------------------------------------------------------------------------
(* Properties of the ledger under threads *)

\* The statements inside `with self.lock:`
Locked == {"read", "clear", "record", "trim", "load", "reset", "unlock"}

ContentsOf(entries) == [i \in 1..Len(entries) |-> entries[i].content]

\* The response a thread has recorded in the ledger and not yet returned
Pending ==
    IF \E t \in Threads : /\ pc[t] \in {"trim", "unlock"}
                          /\ frame[t].op = "get_response"
                          /\ frame[t].response.some
    THEN LET t == CHOOSE t \in Threads : /\ pc[t] \in {"trim", "unlock"}
                                        /\ frame[t].op = "get_response"
                                        /\ frame[t].response.some
         IN  <<frame[t].response.val>>
    ELSE <<>>

NoDuplicates(seq) == \A i, j \in 1..Len(seq) : i # j => seq[i] # seq[j]

LedgerThreadsSafe ==
    LET entries == get_all_responses(responses, LedgerAddress)
    IN  \* one thread at a time is inside a with block, and it holds the lock
        /\ \A t \in Threads : pc[t] \in Locked => lock = t
        /\ (\A t \in Threads : pc[t] \notin Locked) => lock = 0
        \* the ledger holds the responses returned since the last clear, in
        \* the order the calls returned them, and the one being returned
        /\ ContentsOf(entries) =
               IF \E t \in Threads : pc[t] = "trim"
               THEN LastN(returned[LedgerAddress], MaxResponses) \o Pending
               ELSE LastN(returned[LedgerAddress] \o Pending, MaxResponses)
        \* no node write is recorded twice or returned twice
        /\ NoDuplicates(ContentsOf(entries))
        /\ NoDuplicates(returned[LedgerAddress])
        \* the bound, in every state another call can see and in every list returned
        /\ (\A t \in Threads : pc[t] # "trim") => Len(entries) <= MaxResponses
        /\ \A t \in Threads :
               frame[t].op = "get_all_responses" => Len(frame[t].hist) <= MaxResponses

-----------------------------------------------------------------------------
(* Properties of the ChatroomManager under threads *)

\* What the call of thread t was to bring about is in the chatroom's file
EffectPresent(t) ==
    LET chatroom_data == chatrooms[frame[t].room]
    IN  CASE frame[t].op = "add_message" ->
                 \E m \in Range(chatroom_data.messages) : m.id = t
          [] frame[t].op = "add_member" ->
                 frame[t].user \in Range(chatroom_data.members)
          [] frame[t].op = "remove_member" ->
                 frame[t].user \notin Range(chatroom_data.members)

\* The call of thread t has returned success and its effect is not there
EffectLost(t) ==
    /\ pc[t] = "done"
    /\ frame[t].ok
    /\ ~EffectPresent(t)

\* C19: two threads changing chatrooms with add_message, add_member and
\* remove_member: the effect of a call that returned success is missing from
\* the file only when the other thread's call was on the same chatroom and
\* the two calls overlapped; with calls on different chatrooms, or one call
\* after the other, no acknowledged effect is lost.
C19_LostUpdateOnlyInRace ==
    \A t \in Threads : \A u \in Threads \ {t} :
        EffectLost(t)
        => /\ frame[u].op \in StoreOps
           /\ frame[u].room = frame[t].room
           /\ frame[t].overlapped \/ frame[u].overlapped

\* The lost update: both calls on the same chatroom have returned success
\* and the file lacks the effect of one of them
C19_Witness ==
    /\ \A t \in Threads : pc[t] = "done" /\ frame[t].ok
    /\ frame[1].room = frame[2].room
    /\ \E t \in Threads : EffectLost(t)

\* The two threads have returned from create_direct_message for the same
\* two users
BothResolved ==
    /\ \A t \in Threads : pc[t] = "done" /\ frame[t].op = "create_direct_message"
    /\ {frame[1].user1, frame[1].user2} = {frame[2].user1, frame[2].user2}

\* C20: two threads call create_direct_message for the same two users while
\* no chatroom exists. When the calls overlap, both scans may find nothing:
\* both calls then return is_new = True with different ids and there are two
\* direct-message chatrooms of the two users. When one call is made after
\* the other has returned, they return the same id and only the first
\* returns is_new = True.
C20_TwoRoomsOnlyInRace ==
    BothResolved
    => /\ (frame[1].is_new /\ frame[2].is_new)
          => /\ frame[1].overlapped \/ frame[2].overlapped
             /\ frame[1].id # frame[2].id
             /\ {frame[1].id, frame[2].id}
                    \subseteq DirectMessages(chatrooms, frame[1].user1, frame[1].user2)
       /\ ~(frame[1].overlapped \/ frame[2].overlapped)
          => /\ frame[1].id = frame[2].id
             /\ frame[1].is_new # frame[2].is_new

\* The race: both calls returned is_new = True, with different ids, and the
\* two users have two direct-message chatrooms
C20_Witness ==
    /\ BothResolved
    /\ frame[1].user1 # frame[1].user2
    /\ frame[1].is_new /\ frame[2].is_new
    /\ frame[1].id # frame[2].id
    /\ Cardinality(DirectMessages(chatrooms, frame[1].user1, frame[1].user2)) = 2

-----------------------------------------------------------------------------
(* Properties of the members *)

\* C21: in every state reached by calls of create_chatroom (with any list
\* of members), add_member, remove_member and create_direct_message (also
\* with both users the same), no user occurs twice in the members of a
\* chatroom, and so a user that remove_member has removed with success is
\* not a member any more.
C21_MembersAreASet ==
    /\ \A id \in DOMAIN chatrooms : NoDuplicates(chatrooms[id].members)
    /\ (outcome.op = "remove_member" /\ outcome.ok)
       => outcome.user \notin Range(chatrooms[outcome.room].members)

-----------------------------------------------------------------------------
(* Properties of the result slot under a node that writes at any moment *)

\* C22: the node writes results to the slot while calls of get_response
\* run, without taking the lock. No result is discarded in silence: when a
\* call empties the slot, the slot holds the result the call returns and no
\* other, so a result leaves the slot only by being returned or by being
\* overwritten by the node.
C22_NoResultDiscarded ==
    [][ \A t \in Threads :
            (pc[t] = "clear" /\ pc'[t] = "record")
            => Strip(outfile[_format_node_address(LedgerAddress)].content)
                   = frame[t].response.val
      ]_vars

====
